---- MODULE Spec2Model ----
(***************************************************************************)
(* Model of the hyperoperation crate (src/src/lib.rs).                     *)
(*                                                                         *)
(* The evaluator `hyperoperation` is modelled as a small-step machine with *)
(* an explicit call stack: one frame per active call, one action per       *)
(* statement of the function.  The numeric type Num is modelled in three   *)
(* flavours, the ones the crate documents: a fixed-width unsigned integer  *)
(* built with overflow checks ("debug", arithmetic overflow panics), the   *)
(* same built without them ("release", arithmetic wraps modulo 2^Width)    *)
(* and BigUint ("biguint", no upper limit, subtraction below zero panics). *)
(* Display::fmt is modelled as an operator producing the sequence of       *)
(* Unicode code points of the rendered string.                             *)
(***************************************************************************)
EXTENDS Integers, Sequences, FiniteSets, TLC

VARIABLES mode, expr, stack, status, result, rendered

vars == <<mode, expr, stack, status, result, rendered>>

(***************************************************************************)
(* Bounds of the model.                                                    *)
(***************************************************************************)
\* Bit width of the fixed-width unsigned type.
Width == 3
\* Largest arrow count of an evaluated expression.
MaxArrows == 3
\* Largest operand of an evaluated expression.
MaxOperand == 7
\* Largest BigUint value the model follows; a product beyond it is not taken.
BigCap == 70000
\* Largest operand of a rendered expression.
MaxFmtOperand == 10

(***************************************************************************)
(* Program constants.                                                      *)
(***************************************************************************)
\* arrows: u8
U8Max == 255
\* Code points of the characters Display::fmt writes.
Times == 215
UpArrow == 8593
Space == 32
Digit0 == 48

Modes == {"debug", "release", "biguint"}

RECURSIVE Pow2(_)
Pow2(n) == IF n = 0 THEN 1 ELSE 2 * Pow2(n - 1)

\* Largest value of the fixed-width type.
MaxVal == Pow2(Width) - 1

\* Largest value the model holds for a number of the given flavour.
Limit(m) == IF m = "biguint" THEN BigCap ELSE MaxVal

\* x * y <= cap, computed without forming the product.
ProductWithin(x, y, cap) == IF x = 0 THEN TRUE ELSE y <= cap \div x

(***************************************************************************)
(* Arithmetic of Num.  Each operation yields [ok, val]: ok = FALSE is the  *)
(* numeric type's panic.                                                   *)
(***************************************************************************)
\* The base case taken for addition, the operation below multiplication.
MulAsAdd(m, x, y) == [ok |-> TRUE, val |-> x + y]

\* core::ops::Mul
Mul(m, x, y) ==
    IF m = "biguint" THEN [ok |-> TRUE, val |-> x * y]
    ELSE IF ProductWithin(x, y, MaxVal) THEN [ok |-> TRUE, val |-> x * y]
    ELSE IF m = "release" THEN [ok |-> TRUE, val |-> (x * y) % (MaxVal + 1)]
    ELSE [ok |-> FALSE, val |-> 0]

\* A subtraction that saturates at zero instead of underflowing.
SubSaturating(m, x, y) ==
    [ok |-> TRUE, val |-> IF x >= y THEN x - y ELSE 0]

\* core::ops::Sub
Sub(m, x, y) ==
    IF x >= y THEN [ok |-> TRUE, val |-> x - y]
    ELSE IF m = "release" THEN [ok |-> TRUE, val |-> (x - y) % (MaxVal + 1)]
    ELSE [ok |-> FALSE, val |-> 0]

(***************************************************************************)
(* Call frames of hyperoperation(num_a, num_b, arrows).  num_a is the same *)
(* reference in every call and is read from expr.  pc = "entry": the call  *)
(* has not yet tested arrows; pc = "loop": the call is in its for loop,    *)
(* res is the accumulator, max the loop bound and (state, done) the        *)
(* position of the range_inclusive iterator.                               *)
(***************************************************************************)
EntryFrame(b, n) ==
    [num_b |-> b, arrows |-> n, pc |-> "entry",
     res |-> 0, max |-> 0, state |-> 0, done |-> FALSE]

\* The loop started with an accumulator of one.
LoopFrameOneAcc(f, a, mx) ==
    [f EXCEPT !.pc = "loop", !.res = 1, !.max = mx, !.state = 1, !.done = FALSE]

\* The loop started with an accumulator of zero.
LoopFrameZeroAcc(f, a, mx) ==
    [f EXCEPT !.pc = "loop", !.res = 0, !.max = mx, !.state = 1, !.done = FALSE]

\* The loop started with a range beginning at zero.
LoopFrameFromZero(f, a, mx) ==
    [f EXCEPT !.pc = "loop", !.res = a, !.max = mx, !.state = 0, !.done = FALSE]

\* let mut res = num_a.clone(); ... range_inclusive(Num::one(), max)
LoopFrame(f, a, mx) ==
    [f EXCEPT !.pc = "loop", !.res = a, !.max = mx, !.state = 1, !.done = FALSE]

\* RangeInclusive::next yields an element.
IterHasNext(f) == IF f.state < f.max THEN TRUE ELSE ~f.done /\ f.state = f.max

\* An iterator that yields without moving on.
IterStuck(f) == f

\* RangeInclusive::next moves on: below the stop value the state is
\* incremented, at the stop value the iterator is marked done.
IterAdvance(f) ==
    IF f.state < f.max THEN [f EXCEPT !.state = @ + 1]
    ELSE [f EXCEPT !.done = TRUE]

\* A nested call that keeps the arrow count.
NestedFrameSameArrows(f) == EntryFrame(f.res, f.arrows)

\* A nested call on the caller's own second operand.
NestedFrameOwnOperand(f) == EntryFrame(f.num_b, f.arrows - 1)

\* hyperoperation(num_a, res, arrows - 1)
NestedFrame(f) == EntryFrame(f.res, f.arrows - 1)

Top == stack[Len(stack)]

\* The stack after the top call returns v: the value of the whole
\* evaluation, or the new accumulator of the calling frame.
Return(v) ==
    IF Len(stack) = 1
    THEN /\ stack' = <<>>
         /\ status' = "returned"
         /\ result' = v
    ELSE /\ stack' = [SubSeq(stack, 1, Len(stack) - 1) EXCEPT
                         ![Len(stack) - 1] = [@ EXCEPT !.res = v]]
         /\ UNCHANGED <<status, result>>

(***************************************************************************)
(* Display::fmt.  A string is the sequence of its code points.             *)
(***************************************************************************)
\* Display of an unsigned integer: its decimal digits, most significant
\* first, no leading zero.
RECURSIVE Decimal(_)
Decimal(n) ==
    IF n < 10 THEN <<Digit0 + n>>
    ELSE Decimal(n \div 10) \o <<Digit0 + (n % 10)>>

\* "↑".repeat(n)
Repeat(c, n) == [i \in 1..n |-> c]

\* The glyph without the case for zero arrows.
ArrsNoTimes(n) == Repeat(UpArrow, n)

\* match self.arrows { 0 => "×", _ => "↑".repeat(self.arrows as usize) }
Arrs(n) == IF n = 0 THEN <<Times>> ELSE Repeat(UpArrow, n)

\* write!(f, "{} {arrs} {}", self.num_a, self.num_b)
Format(e) ==
    Decimal(e.num_a) \o <<Space>> \o Arrs(e.arrows) \o <<Space>> \o Decimal(e.num_b)

(***************************************************************************)
(* Initial states: a constructed Hyperoperation over one of the numeric    *)
(* flavours, not yet evaluated or rendered.                                *)
(***************************************************************************)
\* Hyperoperation::new(num_a, num_b, arrows)
New(a, b, n) == [num_a |-> a, num_b |-> b, arrows |-> n]

Constructed(m, as, bs, ns) ==
    /\ mode = m
    /\ expr \in {New(a, b, n) : a \in as, b \in bs, n \in ns}
    /\ stack = <<>>
    /\ status = "new"
    /\ result = 0
    /\ rendered = <<>>

\* The operands of an evaluated expression: values of the numeric flavour.
Operands(m) == {x \in 0..MaxOperand : x <= Limit(m)}

Init ==
    \E m \in Modes :
        Constructed(m, Operands(m), Operands(m), 0..MaxArrows)

\* Expressions over the fixed-width flavours only.
InitFixed ==
    \E m \in {"debug", "release"} :
        Constructed(m, Operands(m), Operands(m), 0..MaxArrows)

\* Expressions to render: every arrow count of a u8.
InitFmt ==
    \E m \in Modes :
        Constructed(m, {x \in 0..MaxFmtOperand : x <= Limit(m)},
                       {x \in 0..MaxFmtOperand : x <= Limit(m)}, 0..U8Max)

(***************************************************************************)
(* Actions.                                                                *)
(***************************************************************************)
\* Hyperoperation::evaluate: hyperoperation(&self.num_a, self.num_b, self.arrows)
Evaluate ==
    /\ status = "new"
    /\ stack' = <<EntryFrame(expr.num_b, expr.arrows)>>
    /\ status' = "running"
    /\ UNCHANGED <<mode, expr, result, rendered>>

\* if arrows == 0 { num_b * num_a }
\* A BigUint product beyond BigCap is not followed (fixed-width values never
\* come near it).
BaseCase ==
    /\ status = "running"
    /\ Top.pc = "entry"
    /\ Top.arrows = 0
    /\ ProductWithin(Top.num_b, expr.num_a, BigCap)
    /\ LET p == Mul(mode, Top.num_b, expr.num_a) IN
         IF p.ok THEN Return(p.val)
         ELSE /\ status' = "panic_mul"
              /\ UNCHANGED <<stack, result>>
    /\ UNCHANGED <<mode, expr, rendered>>

\* else { let mut res = num_a.clone(); let max = num_b - Num::one();
EnterLoop ==
    /\ status = "running"
    /\ Top.pc = "entry"
    /\ Top.arrows # 0
    /\ LET d == Sub(mode, Top.num_b, 1) IN
         IF d.ok
         THEN /\ stack' = [stack EXCEPT ![Len(stack)] = LoopFrame(@, expr.num_a, d.val)]
              /\ UNCHANGED status
         ELSE /\ status' = "panic_sub"
              /\ UNCHANGED stack
    /\ UNCHANGED <<mode, expr, result, rendered>>

\* for _ in range_inclusive(..) { res = hyperoperation(num_a, res, arrows - 1); }
\* the iterator yields and the nested call is entered.
LoopCall ==
    /\ status = "running"
    /\ Top.pc = "loop"
    /\ IterHasNext(Top)
    /\ stack' = Append([stack EXCEPT ![Len(stack)] = IterAdvance(@)], NestedFrame(Top))
    /\ UNCHANGED <<mode, expr, status, result, rendered>>

\* The iterator is exhausted: the call returns res.
LoopExit ==
    /\ status = "running"
    /\ Top.pc = "loop"
    /\ ~IterHasNext(Top)
    /\ Return(Top.res)
    /\ UNCHANGED <<mode, expr, rendered>>

\* Display::fmt
Fmt ==
    /\ status = "new"
    /\ rendered = <<>>
    /\ rendered' = Format(expr)
    /\ UNCHANGED <<mode, expr, stack, status, result>>

Next == Evaluate \/ BaseCase \/ EnterLoop \/ LoopCall \/ LoopExit

Spec == Init /\ [][Next]_vars

\* The evaluator is a sequential program: an evaluation that can take a
\* step takes it.
LiveSpec == InitFixed /\ [][Next]_vars /\ WF_vars(Next)

FmtSpec == InitFmt /\ [][Fmt]_vars

Finished == status \in {"returned", "panic_mul", "panic_sub"}

(***************************************************************************)
(* Reference operators, independent of the evaluator's loop.               *)
(***************************************************************************)
RECURSIVE Log2(_)
Log2(n) == IF n < 2 THEN 0 ELSE 1 + Log2(n \div 2)

\* a^b by repeated multiplication; cap + 1 stands for any value above cap.
RECURSIVE PowRef(_, _, _)
PowRef(a, b, cap) ==
    IF b = 0 THEN 1
    ELSE LET r == PowRef(a, b - 1, cap) IN
         IF r > cap \/ ~ProductWithin(a, r, cap) THEN cap + 1 ELSE a * r

\* Knuth's a ^(n arrows) b by the double recursion
\*   a ^n b = a ^(n-1) (a ^n (b-1)),  a ^n 1 = a,  a ^0 b = a * b,
\* for b >= 1 and (a >= 1 or n <= 1); cap + 1 stands for any value above
\* cap.  For a >= 2 and n >= 1 the value is at least 2^b, and it does not
\* decrease when the second operand grows.
RECURSIVE UpArrowRef(_, _, _, _)
UpArrowRef(a, b, n, cap) ==
    IF n = 0 THEN (IF ProductWithin(a, b, cap) THEN a * b ELSE cap + 1)
    ELSE IF b = 1 THEN a
    ELSE IF a >= 2 /\ b > Log2(cap) THEN cap + 1
    ELSE LET inner == UpArrowRef(a, b - 1, n, cap) IN
         IF inner > cap THEN cap + 1 ELSE UpArrowRef(a, inner, n - 1, cap)

\* Where the double recursion is defined.
RefDefined(e) == e.num_b >= 1 /\ (e.num_a >= 1 \/ e.arrows <= 1)

Frames == {stack[i] : i \in 1..Len(stack)}

(***************************************************************************)
(* C1.  With arrows = 0 the evaluation is the one multiplication           *)
(* num_b * num_a, for every num_b including 0: no call ever reaches the    *)
(* decrement or the loop, no subtraction fault occurs, and the value       *)
(* returned is the product as the numeric type forms it (the product       *)
(* itself when it fits, the product modulo 2^Width when a release build    *)
(* wraps, the multiplication panic when a debug build overflows).          *)
(***************************************************************************)
C1_ZeroArrowsIsProduct ==
    expr.arrows = 0 =>
        /\ Len(stack) <= 1
        /\ \A f \in Frames : f.pc = "entry"
        /\ status # "panic_sub"
        /\ status = "returned" =>
               result = IF mode = "release"
                        THEN (expr.num_a * expr.num_b) % (MaxVal + 1)
                        ELSE expr.num_a * expr.num_b
        /\ status = "panic_mul" =>
               mode = "debug" /\ expr.num_a * expr.num_b > MaxVal
        /\ (status = "returned" /\ mode = "debug") =>
               expr.num_a * expr.num_b <= MaxVal

C1_Witness ==
    /\ expr.arrows = 0
    /\ expr.num_b = 0
    /\ expr.num_a = 4
    /\ status = "returned"
    /\ result = 0

(***************************************************************************)
(* C2.  With arrows = 1, whenever num_a^num_b fits the numeric type, the   *)
(* evaluation returns num_a^num_b, for every num_a and every num_b.        *)
(***************************************************************************)
C2_OneArrowIsPower ==
    (/\ expr.arrows = 1
     /\ Finished
     /\ PowRef(expr.num_a, expr.num_b, Limit(mode)) <= Limit(mode))
    => (status = "returned" /\ result = PowRef(expr.num_a, expr.num_b, Limit(mode)))

(***************************************************************************)
(* C3.  Wherever the double recursion a ^n b = a ^(n-1) (a ^n (b-1)) with  *)
(* a ^n 1 = a and a ^0 b = a * b is defined and its value fits the numeric *)
(* type, a finished evaluation has returned exactly that value; in         *)
(* particular 3^^2 = 27, 2^^4 = 65536 and 2^^^3 = 65536.                   *)
(***************************************************************************)
C3_MatchesUpArrowRecursion ==
    /\ (/\ RefDefined(expr)
         /\ Finished
         /\ UpArrowRef(expr.num_a, expr.num_b, expr.arrows, Limit(mode)) <= Limit(mode))
        => (/\ status = "returned"
            /\ result = UpArrowRef(expr.num_a, expr.num_b, expr.arrows, Limit(mode)))
    /\ (status = "returned" /\ mode = "biguint") =>
          /\ expr = New(3, 2, 2) => result = 27
          /\ expr = New(2, 4, 2) => result = 65536
          /\ expr = New(2, 3, 3) => result = 65536
          /\ expr = New(4, 7, 0) => result = 28

C3_Witness ==
    /\ mode = "biguint"
    /\ expr = New(2, 3, 3)
    /\ status = "returned"
    /\ result = 65536

(***************************************************************************)
(* C4.  With num_b = 1 the evaluation returns num_a for every arrow        *)
(* count: no nested call is ever made (the stack never holds a second      *)
(* frame), no fault occurs and the value returned is num_a.                *)
(***************************************************************************)
C4_OperandOneReturnsA ==
    expr.num_b = 1 =>
        /\ Len(stack) <= 1
        /\ status \notin {"panic_sub", "panic_mul"}
        /\ status = "returned" => result = expr.num_a

C4_Witness ==
    /\ expr.num_b = 1
    /\ expr.arrows >= 2
    /\ expr.num_a >= 2
    /\ status = "returned"
    /\ result = expr.num_a

(***************************************************************************)
(* C5.  The rendered string is the decimal digits of num_a, one space,     *)
(* the glyph, one space, the decimal digits of num_b, where the glyph is   *)
(* the single character U+00D7 when arrows = 0 and otherwise U+2191        *)
(* repeated exactly arrows times, for every arrows in 0..255; (3,4,2)      *)
(* renders as "3 ^^ 4" with two up-arrows and (3,4,0) as "3 x 4" with the  *)
(* multiplication sign.                                                    *)
(***************************************************************************)
\* The number a sequence of decimal digits denotes; -1 when it is empty,
\* holds a character that is no digit, or has a leading zero.
RECURSIVE DigitsValue(_)
DigitsValue(s) ==
    IF Len(s) = 0 THEN -1
    ELSE LET d == s[Len(s)] - 48 IN
         IF d < 0 \/ d > 9 THEN -1
         ELSE IF Len(s) = 1 THEN d
         ELSE LET hi == DigitsValue(SubSeq(s, 1, Len(s) - 1)) IN
              IF hi <= 0 THEN -1 ELSE 10 * hi + d

\* The position of the first space of s (0 when there is none).
FirstSpace(s) ==
    IF \E i \in 1..Len(s) : s[i] = 32
    THEN CHOOSE i \in 1..Len(s) : s[i] = 32 /\ \A j \in 1..(i - 1) : s[j] # 32
    ELSE 0

C5_RenderingIsCanonical ==
    rendered # <<>> =>
        LET p == FirstSpace(rendered)
            g == IF expr.arrows = 0 THEN 1 ELSE expr.arrows
        IN  /\ p >= 2
            /\ DigitsValue(SubSeq(rendered, 1, p - 1)) = expr.num_a
            /\ Len(rendered) >= p + g + 2
            /\ \A i \in (p + 1)..(p + g) :
                   rendered[i] = IF expr.arrows = 0 THEN 215 ELSE 8593
            /\ rendered[p + g + 1] = 32
            /\ DigitsValue(SubSeq(rendered, p + g + 2, Len(rendered))) = expr.num_b
            /\ expr = New(3, 4, 2) => rendered = <<51, 32, 8593, 8593, 32, 52>>
            /\ expr = New(3, 4, 0) => rendered = <<51, 32, 215, 32, 52>>

C5_Witness ==
    /\ expr = New(10, 4, 255)
    /\ Len(rendered) = 2 + 1 + 255 + 1 + 1
    /\ rendered[4] = 8593
    /\ rendered[258] = 8593

(***************************************************************************)
(* C6.  A call entered with arrows > 0 and num_b = 0 takes the decrement   *)
(* num_b - 1 unguarded: under checked arithmetic and BigUint its next step *)
(* is the subtraction panic, with nothing returned and the stack left as   *)
(* it is; under wrapping arithmetic its next step enters the loop with the *)
(* wrapped bound 2^Width - 1.  In no case is its next step a return.       *)
(***************************************************************************)
C6_ZeroOperandUnderflows ==
    [][(/\ status = "running"
        /\ Top.pc = "entry"
        /\ Top.arrows > 0
        /\ Top.num_b = 0)
       => IF mode = "release"
          THEN /\ status' = "running"
               /\ Len(stack') = Len(stack)
               /\ stack'[Len(stack)].pc = "loop"
               /\ stack'[Len(stack)].max = MaxVal
               /\ IterHasNext(stack'[Len(stack)])
          ELSE /\ status' = "panic_sub"
               /\ stack' = stack
               /\ result' = result]_vars

C6_Witness ==
    /\ status = "panic_sub"
    /\ Len(stack) = 1
    /\ Top.num_b = 0
    /\ Top.arrows > 0
    /\ Top.pc = "entry"

(***************************************************************************)
(* C7.  The stack of active calls never holds more than arrows + 1 frames  *)
(* (the outermost call and at most arrows nested ones), whatever num_b is; *)
(* the frame at depth i has arrow count arrows - (i - 1), one less than    *)
(* its caller, and every frame below the top is inside its loop.           *)
(***************************************************************************)
C7_DepthBoundedByArrows ==
    /\ Len(stack) <= expr.arrows + 1
    /\ \A i \in 1..Len(stack) :
          /\ stack[i].arrows = expr.arrows - (i - 1)
          /\ i < Len(stack) => stack[i].pc = "loop"

C7_Witness ==
    /\ expr.arrows = MaxArrows
    /\ expr.num_b >= 2
    /\ Len(stack) = MaxArrows + 1
    /\ stack[1].state >= 2

(***************************************************************************)
(* C8.  For num_a >= 1 and num_b >= 1, as long as no arithmetic overflows  *)
(* (BigUint; a debug build, which stops at the first overflow; a release   *)
(* build on an expression whose value fits), every call's second operand   *)
(* and every accumulator is >= 1, the decrement never underflows, and a    *)
(* finished evaluation has returned a value unless a debug build stopped   *)
(* at a multiplication overflow.                                           *)
(***************************************************************************)
C8_PositiveOperandsNeverUnderflow ==
    (/\ expr.num_a >= 1
     /\ expr.num_b >= 1
     /\ mode = "release" =>
            UpArrowRef(expr.num_a, expr.num_b, expr.arrows, MaxVal) <= MaxVal)
    => /\ \A f \in Frames : f.num_b >= 1 /\ (f.pc = "loop" => f.res >= 1)
       /\ status # "panic_sub"
       /\ status = "panic_mul" => mode = "debug"
       /\ status = "returned" => result >= 1

C8_Witness ==
    /\ expr.num_a >= 2
    /\ expr.num_b >= 2
    /\ expr.arrows >= 2
    /\ Len(stack) = 3
    /\ Top.num_b >= 4

(***************************************************************************)
(* C9 as stated.  For num_a = 0, num_b >= 2 and arrows >= 2 a finished     *)
(* evaluation has ended in the subtraction fault.                          *)
(***************************************************************************)
C9_ZeroBaseAlwaysFaults ==
    (/\ expr.num_a = 0
     /\ expr.num_b >= 2
     /\ expr.arrows >= 2
     /\ Finished)
    => status = "panic_sub"

(***************************************************************************)
(* C9 amended.  For num_a = 0, num_b >= 2 and arrows >= 2 the first nested *)
(* call receives the accumulator 0 as its second operand with an arrow     *)
(* count arrows - 1 >= 1 and so decrements zero.  Under checked arithmetic *)
(* and BigUint the evaluation never returns a value: it can only end in    *)
(* the subtraction panic, raised in that nested call.  Under wrapping      *)
(* arithmetic the decrement wraps to 2^Width - 1, the call iterates on the *)
(* wrapped bound, nothing panics and the value returned is 0.              *)
(***************************************************************************)
C9_ZeroBaseUnderflows ==
    (/\ expr.num_a = 0
     /\ expr.num_b >= 2
     /\ expr.arrows >= 2)
    => /\ Len(stack) >= 2 =>
             /\ stack[2].num_b = 0
             /\ stack[2].arrows = expr.arrows - 1
             /\ stack[2].arrows >= 1
       /\ mode # "release" =>
             /\ status \notin {"returned", "panic_mul"}
             /\ Len(stack) <= 2
             /\ status = "panic_sub" =>
                    Len(stack) = 2 /\ Top.pc = "entry" /\ stack[1].res = 0
       /\ mode = "release" =>
             /\ status \notin {"panic_sub", "panic_mul"}
             /\ \A f \in Frames :
                    (f.pc = "loop" /\ f.num_b = 0) => f.max = MaxVal
             /\ status = "returned" => result = 0

C9_Witness ==
    /\ expr.num_a = 0
    /\ expr.num_b >= 2
    /\ expr.arrows >= 2
    /\ status = "panic_sub"
    /\ Len(stack) = 2
    /\ Top.num_b = 0

(***************************************************************************)
(* C10.  Over the fixed-width flavours every evaluation eventually         *)
(* finishes, by returning a value or by stopping at an arithmetic panic,   *)
(* and the bound of a loop, computed before the loop, never changes while  *)
(* the call is active.                                                     *)
(***************************************************************************)
LoopBoundFixed ==
    \A i \in 1..Len(stack) :
        (i <= Len(stack') /\ stack[i].pc = "loop")
        => (stack'[i].pc = "loop" /\ stack'[i].max = stack[i].max)

C10_EvaluationTerminates == (<>Finished) /\ [][LoopBoundFixed]_vars

C10_Witness ==
    /\ mode = "release"
    /\ expr.arrows = MaxArrows
    /\ expr.num_b = 0
    /\ expr.num_a >= 2
    /\ status = "returned"

====
